---- MODULE Spec2Model ----
(***************************************************************************)
(* Model of the reading-habit dashboard page (src/main.py).                *)
(*                                                                         *)
(* The page is a script that runs top to bottom on every interaction.      *)
(* One action of the model is one such run (with at most one button        *)
(* pressed), or a change of the environment (a new session, the calendar   *)
(* moving on to the next day).                                             *)
(*                                                                         *)
(* A calendar date is a triple <<year, month, day>>.  Text (a CSV cell, a  *)
(* URL) is a sequence of strings, one character each where the code reads  *)
(* or writes the text character by character.  A table (a DataFrame) is a  *)
(* sequence of rows, each row a record.  A mean is kept as the exact       *)
(* fraction of its sum and its count.                                      *)
(*                                                                         *)
(* Left out: the charts, which read the statistics and change no state of  *)
(* the page; and the shelf form (add_book), which reads the Title and      *)
(* Author boxes and writes my_books.csv only.  my_books.csv is taken to    *)
(* exist, so that the script's read of it does not stop a run.             *)
(***************************************************************************)
EXTENDS Integers, Sequences, FiniteSets, TLC

VARIABLES
    today,        \* date.today() / datetime.now().date()
    file_exists,  \* os.path.exists(DAILY_LOG_FILE)
    file_rows,    \* data rows of DAILY_LOG_FILE below its header, as text
    has_log,      \* 'daily_log' in st.session_state
    daily_log,    \* st.session_state.daily_log
    search,       \* raw_info, url, title, author, cover_url of st.session_state
    shown,        \* what the last run of the script displayed
    YEAR,         \* the module-level YEAR used by create_heatmap_view
    heat          \* the data handed to go.Heatmap by create_heatmap_view

vars == <<today, file_exists, file_rows, has_log, daily_log, search, shown, YEAR, heat>>

----------------------------------------------------------------------------
(* Bounds of the model. *)

\* longest in-memory log the page model lets a session build
MaxLog == 2
\* number of consecutive calendar days the page model's clock runs through
MaxDays == 2
\* number of consecutive calendar days a generated streak input spans
MaxStreakDays == 6
\* number of consecutive calendar days a generated statistics input spans
MaxStatDays == 9

(* Program constants. *)

daily_goal == 10
MinPages == 0
MaxPages == 30
TailLen == 7

----------------------------------------------------------------------------
(* Generic helpers over sequences. *)

Max2(a, b) == IF a >= b THEN a ELSE b
Min2(a, b) == IF a <= b THEN a ELSE b

RECURSIVE SumSeq(_)
SumSeq(s) == IF s = <<>> THEN 0 ELSE Head(s) + SumSeq(Tail(s))

RECURSIVE MaxSeq(_)
MaxSeq(s) == IF Len(s) = 1 THEN s[1] ELSE Max2(Head(s), MaxSeq(Tail(s)))

\* ss[lo] \o ... \o ss[hi], by halves
RECURSIVE ConcatRange(_, _, _)
ConcatRange(ss, lo, hi) ==
    IF lo > hi THEN <<>>
    ELSE IF lo = hi THEN ss[lo]
    ELSE LET mid == (lo + hi) \div 2
         IN  ConcatRange(ss, lo, mid) \o ConcatRange(ss, mid + 1, hi)

Concat(ss) == ConcatRange(ss, 1, Len(ss))

LastN(s, n) == SubSeq(s, Max2(1, Len(s) - n + 1), Len(s))

----------------------------------------------------------------------------
(* The calendar: datetime.date as the code uses it. *)

IsLeap(y) == (y % 4 = 0 /\ y % 100 # 0) \/ y % 400 = 0

DaysInMonth(y, m) ==
    IF m = 2 THEN (IF IsLeap(y) THEN 29 ELSE 28)
    ELSE IF m \in {4, 6, 9, 11} THEN 30 ELSE 31

DaysInYear(y) == IF IsLeap(y) THEN 366 ELSE 365

RECURSIVE DaysBeforeMonth(_, _)
DaysBeforeMonth(y, m) ==
    IF m = 1 THEN 0 ELSE DaysBeforeMonth(y, m - 1) + DaysInMonth(y, m - 1)

\* Series.dt.dayofyear
DayOfYear(dt) == DaysBeforeMonth(dt[1], dt[2]) + dt[3]

\* date.toordinal(): days since 0001-01-01, which is day 1
Ordinal(dt) ==
    LET p == dt[1] - 1
    IN  365 * p + (p \div 4) - (p \div 100) + (p \div 400) + DayOfYear(dt)

\* date.weekday() / Series.dt.weekday: Monday is 0
Weekday(dt) == (Ordinal(dt) + 6) % 7

\* number of ISO weeks of year y
WeeksInYear(y) ==
    LET jan1 == Weekday(<<y, 1, 1>>)
    IN  IF jan1 = 3 \/ (jan1 = 2 /\ IsLeap(y)) THEN 53 ELSE 52

\* Series.dt.isocalendar().week
IsoWeek(dt) ==
    LET w == (DayOfYear(dt) - (Weekday(dt) + 1) + 10) \div 7
    IN  IF w < 1 THEN WeeksInYear(dt[1] - 1)
        ELSE IF w > WeeksInYear(dt[1]) THEN 1
        ELSE w

\* the date of the n-th day of year y
RECURSIVE MonthOfYearDay(_, _, _)
MonthOfYearDay(y, n, m) ==
    IF n <= DaysInMonth(y, m) THEN <<y, m, n>>
    ELSE MonthOfYearDay(y, n - DaysInMonth(y, m), m + 1)

DateOfYearDay(y, n) == MonthOfYearDay(y, n, 1)

\* the day after dt
NextDay(dt) ==
    IF dt[3] < DaysInMonth(dt[1], dt[2]) THEN <<dt[1], dt[2], dt[3] + 1>>
    ELSE IF dt[2] < 12 THEN <<dt[1], dt[2] + 1, 1>>
    ELSE <<dt[1] + 1, 1, 1>>

RECURSIVE PlusDays(_, _)
PlusDays(dt, n) == IF n = 0 THEN dt ELSE PlusDays(NextDay(dt), n - 1)

\* a <= b for two dates: year, then month, then day
DateLE(a, b) ==
    \/ a[1] < b[1]
    \/ a[1] = b[1] /\ a[2] < b[2]
    \/ a[1] = b[1] /\ a[2] = b[2] /\ a[3] <= b[3]

----------------------------------------------------------------------------
(* Text, as DataFrame.to_csv writes it and pd.read_csv / pd.to_datetime    *)
(* read it back.                                                           *)

DigitChars == <<"0", "1", "2", "3", "4", "5", "6", "7", "8", "9">>

\* str(n) for an integer n >= 0
RECURSIVE FormatInt(_)
FormatInt(n) ==
    IF n < 10 THEN <<DigitChars[n + 1]>>
    ELSE FormatInt(n \div 10) \o <<DigitChars[(n % 10) + 1]>>

\* n written with at least w digits, padded with zeros on the left
RECURSIVE ZeroPad(_, _)
ZeroPad(t, w) == IF Len(t) >= w THEN t ELSE ZeroPad(<<"0">> \o t, w)

\* date.isoformat(), the text to_csv writes for a date cell: YYYY-MM-DD
isoformat(dt) ==
    ZeroPad(FormatInt(dt[1]), 4) \o <<"-">> \o
    ZeroPad(FormatInt(dt[2]), 2) \o <<"-">> \o
    ZeroPad(FormatInt(dt[3]), 2)

CharDigit(c) == CHOOSE d \in 0..9 : DigitChars[d + 1] = c

\* int(text) for a text of decimal digits
RECURSIVE ParseInt(_)
ParseInt(t) ==
    IF Len(t) = 1 THEN CharDigit(t[1])
    ELSE 10 * ParseInt(SubSeq(t, 1, Len(t) - 1)) + CharDigit(t[Len(t)])

\* the position of the first "-" of t at or after position i
RECURSIVE DashFrom(_, _)
DashFrom(t, i) == IF t[i] = "-" THEN i ELSE DashFrom(t, i + 1)

\* pd.to_datetime(text).date() for an ISO date text
ParseDate(t) ==
    LET d1 == DashFrom(t, 1)
        d2 == DashFrom(t, d1 + 1)
    IN  << ParseInt(SubSeq(t, 1, d1 - 1)),
           ParseInt(SubSeq(t, d1 + 1, d2 - 1)),
           ParseInt(SubSeq(t, d2 + 1, Len(t))) >>

\* to_csv applied to the new row alone in place of the updated log
to_csv_new_row(log) ==
    IF log = <<>> THEN <<>>
    ELSE << [date |-> isoformat(log[Len(log)].date),
             pages |-> FormatInt(log[Len(log)].pages)] >>

\* updated_log.to_csv(DAILY_LOG_FILE, index=False): the rows under the header
to_csv(log) ==
    [i \in 1..Len(log) |->
        [date |-> isoformat(log[i].date), pages |-> FormatInt(log[i].pages)]]

\* pd.read_csv(DAILY_LOG_FILE): pages become integers, dates stay text
read_csv(rows) ==
    [i \in 1..Len(rows) |->
        [date |-> rows[i].date, pages |-> ParseInt(rows[i].pages)]]

\* pd.to_datetime(df['date']).dt.date applied to a column of date text
DatesFromText(df) ==
    [i \in 1..Len(df) |-> [date |-> ParseDate(df[i].date), pages |-> df[i].pages]]

\* the session's log as the first run of the script sets it up
LoadLog(exists, rows) ==
    LET df == IF exists THEN read_csv(rows) ELSE <<>>
    IN  IF df # <<>> THEN DatesFromText(df) ELSE df

----------------------------------------------------------------------------
(* log_daily_reading *)

\* log_daily_reading with the operands of pd.concat swapped: the new row comes first
log_daily_reading_first(log, log_date, pages) ==
    << [date |-> log_date, pages |-> pages] >> \o log

log_daily_reading(log, log_date, pages) ==
    log \o << [date |-> log_date, pages |-> pages] >>

----------------------------------------------------------------------------
(* get_daily_stats *)

DatesOf(df) == {df[i].date : i \in 1..Len(df)}

\* the dates of S in ascending order
RECURSIVE SortedDates(_)
SortedDates(S) ==
    IF S = {} THEN <<>>
    ELSE LET m == CHOOSE x \in S : \A y \in S : DateLE(x, y)
         IN  <<m>> \o SortedDates(S \ {m})

\* the pages of the rows of df dated d, in row order
RECURSIVE PagesOn(_, _)
PagesOn(df, d) ==
    IF df = <<>> THEN <<>>
    ELSE (IF Head(df).date = d THEN <<Head(df).pages>> ELSE <<>>)
         \o PagesOn(Tail(df), d)

\* groupby_sum with .last() in place of .sum(): each date keeps its last row's pages
groupby_last(df) ==
    LET keys == SortedDates(DatesOf(df))
    IN  [i \in 1..Len(keys) |->
            [date |-> keys[i],
             pages |-> PagesOn(df, keys[i])[Len(PagesOn(df, keys[i]))]]]

\* daily_log.groupby('date', as_index=False).sum(): one row per key, keys sorted
groupby_sum(df) ==
    LET keys == SortedDates(DatesOf(df))
    IN  [i \in 1..Len(keys) |->
            [date |-> keys[i], pages |-> SumSeq(PagesOn(df, keys[i]))]]

PagesColumn(df) == [i \in 1..Len(df) |-> df[i].pages]

\* Series.mean() of a non-empty column, as the exact fraction num / den
mean(col) == [num |-> SumSeq(col), den |-> Len(col)]

\* tail_mean with .head(7) in place of .tail(7): the earliest seven days
head_mean(grouped) == mean(SubSeq(PagesColumn(grouped), 1, Min2(TailLen, Len(grouped))))

\* grouped_log['pages'].tail(7).mean()
tail_mean(grouped) == mean(LastN(PagesColumn(grouped), TailLen))

get_daily_stats(log) ==
    IF log = <<>> THEN [none |-> TRUE]
    ELSE LET grouped_log == groupby_sum(log)
         IN  [none |-> FALSE,
              total_pages |-> SumSeq(PagesColumn(grouped_log)),
              avg_pages_per_day |-> mean(PagesColumn(grouped_log)),
              avg_pages_last_week |-> tail_mean(grouped_log),
              grouped_log |-> grouped_log]

----------------------------------------------------------------------------
(* calculate_streak *)

\* df.sort_values('date'): a stable sort of the rows by date
RECURSIVE InsertRow(_, _)
InsertRow(sorted, r) ==
    IF sorted = <<>> THEN <<r>>
    ELSE IF DateLE(Head(sorted).date, r.date)
         THEN <<Head(sorted)>> \o InsertRow(Tail(sorted), r)
         ELSE <<r>> \o sorted

RECURSIVE sort_values(_)
sort_values(df) ==
    IF df = <<>> THEN <<>>
    ELSE InsertRow(sort_values(SubSeq(df, 1, Len(df) - 1)), df[Len(df)])

\* (df['pages'] >= daily_goal) & (df['date'].diff().dt.days == 1), row i;
\* the first row's diff is missing and compares unequal to 1
StreakFlag(df, goal, i) ==
    /\ df[i].pages >= goal
    /\ i > 1
    /\ Ordinal(df[i].date) - Ordinal(df[i - 1].date) = 1

\* (...).cumsum(): the number of flagged rows among rows 1..i
RECURSIVE StreakColumn(_, _, _)
StreakColumn(df, goal, i) ==
    IF i = 0 THEN 0
    ELSE StreakColumn(df, goal, i - 1) + (IF StreakFlag(df, goal, i) THEN 1 ELSE 0)

\* With fewer than two rows df['date'].diff() holds no timedelta at all: it is an
\* object column (of one NaN, or empty), and the .dt accessor raises
\* AttributeError on it.
calculate_streak(df0, goal) ==
    LET df == sort_values(df0)
        n == Len(df)
        streak == [i \in 1..n |-> StreakColumn(df, goal, i)]
        current_streak == IF df[n].pages >= goal THEN streak[n] ELSE 0
    IN  IF n < 2 THEN [fault |-> TRUE]
        ELSE [fault |-> FALSE,
              current |-> current_streak + 1,
              longest |-> MaxSeq(streak) + 1]

----------------------------------------------------------------------------
(* create_heatmap_view *)

\* the three columns the view derives from a date and merges on
MergeKey(dt) == <<DayOfYear(dt), IsoWeek(dt), Weekday(dt)>>

\* the rows of df whose key equals that of the calendar day dt, in row order
RECURSIVE Matches(_, _)
Matches(df, dt) ==
    IF df = <<>> THEN <<>>
    ELSE (IF MergeKey(Head(df).date) = MergeKey(dt) THEN <<Head(df)>> ELSE <<>>)
         \o Matches(Tail(df), dt)

\* The rows pd.merge(all_days, df, on=[day_of_year, week, day_of_week],
\* how='left') yields for the calendar day dt: one per matching row of df, or
\* one with the default of 0 pages when none matches.  x, y, z are what
\* go.Heatmap is given for the row.
MergedRows(df, dt) ==
    LET m == Matches(df, dt)
    IN  IF m = <<>>
        THEN << [date |-> dt, x |-> IsoWeek(dt), y |-> Weekday(dt), z |-> 0] >>
        ELSE [i \in 1..Len(m) |->
                [date |-> dt, x |-> IsoWeek(dt), y |-> Weekday(dt), z |-> m[i].pages]]

create_heatmap_view(df, year) ==
    Concat([n \in 1..DaysInYear(year) |-> MergedRows(df, DateOfYearDay(year, n))])

----------------------------------------------------------------------------
(* search_book_info *)

\* an optional value: <<>> is None (or an absent key), <<v>> is the value v
None == <<>>
Some(v) == <<v>>

\* separator.join(parts)
RECURSIVE Join(_, _)
Join(sep, parts) ==
    IF parts = <<>> THEN <<>>
    ELSE IF Len(parts) = 1 THEN parts[1]
    ELSE parts[1] \o sep \o Join(sep, Tail(parts))

\* A response is [status, docs]: docs is None when the body has no 'docs', else
\* Some(list of documents).  A document is [key, cover_i, title, author_name],
\* each None when the document lacks the field.
search_book_info(title, response) ==
    LET url == <<"https://openlibrary.org/search.json?title=">> \o title
    IN  IF response.status = 200
        THEN IF response.docs = None THEN [fault |-> TRUE]
             ELSE IF response.docs[1] # <<>>
             THEN LET book_info == response.docs[1][1]
                      cover_id == book_info.cover_i
                  IN  IF book_info.key = None THEN [fault |-> TRUE]
                      ELSE [fault |-> FALSE, none |-> FALSE,
                            raw_info |-> url,
                            url |-> <<"https://openlibrary.org">> \o book_info.key[1],
                            title |-> IF book_info.title = None THEN <<>>
                                      ELSE book_info.title[1],
                            author |-> IF book_info.author_name = None THEN <<>>
                                       ELSE Join(<<", ">>, book_info.author_name[1]),
                            cover_url |-> IF cover_id # None /\ cover_id[1] # 0
                                          THEN Some(<<"https://covers.openlibrary.org/b/id/">>
                                                    \o FormatInt(cover_id[1]) \o <<"-L.jpg">>)
                                          ELSE None]
             ELSE [fault |-> FALSE, none |-> TRUE]
        ELSE [fault |-> FALSE, none |-> TRUE]

----------------------------------------------------------------------------
(* One run of the script. *)

\* the five search keys of st.session_state, each absent (None) at first
NoSearch ==
    [raw_info |-> None, url |-> None, title |-> None, author |-> None,
     cover_url |-> None]

\* nothing has been rendered yet
NotRun ==
    [reached |-> "start", form |-> "none", info |-> FALSE, warning |-> FALSE,
     fault |-> "none", stats |-> [none |-> TRUE], streak |-> None]

NoButton == [kind |-> "none"]

\* DateAccepted with one day of slack: tomorrow passes too
DateAccepted_tomorrow(log_date, now) == DateLE(log_date, NextDay(now))

\* log_date <= date.today()
DateAccepted(log_date, now) == DateLE(log_date, now)

\* the log the run works on: loaded from the file when the session has none
SessionLog == IF has_log THEN daily_log ELSE LoadLog(file_exists, file_rows)

\* the 'Log Reading' button was pressed and the date passes the check
Accepts(btn) == btn.kind = "log" /\ DateAccepted(btn.date, today)

\* st.session_state.daily_log at the end of the run
LogAfter(btn) ==
    IF Accepts(btn) THEN log_daily_reading(SessionLog, btn.date, btn.pages)
    ELSE SessionLog

\* calculate_streak(df_daily_log_grouped, daily_goal) of the statistics block,
\* which runs only when the log is not empty
StreakOf(stats) ==
    IF stats.none THEN None
    ELSE Some(calculate_streak(stats.grouped_log, daily_goal))

\* the result of search_book_info when the Search button was pressed
SearchResult(btn) ==
    IF btn.kind = "search" THEN Some(search_book_info(btn.title, btn.response))
    ELSE None

\* SearchAfterHandler with an else branch that forgets the stored result
SearchAfterHandler_clearing(btn) ==
    LET r == SearchResult(btn)
    IN  IF r # None /\ ~r[1].fault /\ ~r[1].none
        THEN [raw_info |-> Some(r[1].raw_info), url |-> Some(r[1].url),
              title |-> Some(r[1].title), author |-> Some(r[1].author),
              cover_url |-> Some(r[1].cover_url)]
        ELSE IF r # None /\ ~r[1].fault THEN NoSearch
        ELSE search

\* st.session_state's search keys after the handler of the Search button
SearchAfterHandler(btn) ==
    LET r == SearchResult(btn)
    IN  IF r # None /\ ~r[1].fault /\ ~r[1].none
        THEN [raw_info |-> Some(r[1].raw_info), url |-> Some(r[1].url),
              title |-> Some(r[1].title), author |-> Some(r[1].author),
              cover_url |-> Some(r[1].cover_url)]
        ELSE search

\* st.text_input(..., key=k): the user's new text, else the stored value, else ''
Widget(stored, typed) ==
    IF typed # None THEN typed
    ELSE IF stored = None THEN Some(<<>>) ELSE stored

\* st.session_state's search keys at the end of a run that reaches the widgets
SearchAtEnd(btn) ==
    LET s == SearchAfterHandler(btn)
    IN  [s EXCEPT !.title = Widget(@, IF btn.kind = "title" THEN Some(btn.text) ELSE None),
                  !.author = Widget(@, IF btn.kind = "author" THEN Some(btn.text) ELSE None)]

\* where the run stops: in the statistics block, in the search handler, or at the end
Reached(btn, streak) ==
    IF streak # None /\ streak[1].fault THEN "stats"
    ELSE IF SearchResult(btn) # None /\ SearchResult(btn)[1].fault THEN "search"
    ELSE "end"

Script(btn) ==
    LET log == LogAfter(btn)
        stats == get_daily_stats(log)
        streak == StreakOf(stats)
        reached == Reached(btn, streak)
    IN  /\ has_log' = TRUE
        /\ daily_log' = log
        /\ file_exists' = (file_exists \/ Accepts(btn))
        /\ file_rows' = IF Accepts(btn) THEN to_csv(log) ELSE file_rows
        /\ YEAR' = today[1]
        /\ search' = IF reached = "end" THEN SearchAtEnd(btn) ELSE search
        /\ shown' = [reached |-> reached,
                     form |-> IF btn.kind # "log" THEN "none"
                              ELSE IF Accepts(btn) THEN "success" ELSE "error",
                     info |-> (log = <<>>),
                     warning |-> (reached = "end" /\ SearchResult(btn) # None
                                  /\ SearchResult(btn)[1].none),
                     fault |-> IF reached = "stats" THEN "AttributeError"
                               ELSE IF reached = "search" THEN "KeyError" ELSE "none",
                     stats |-> stats,
                     streak |-> streak]
        /\ UNCHANGED <<today, heat>>

----------------------------------------------------------------------------
(* The page: inputs, initial state and actions. *)

\* the first day of the page model's clock; the window crosses a year's end
StartDay == <<2025, 12, 31>>

\* the dates the date picker is given: every day of the clock and the day after
InputDates == {PlusDays(StartDay, n) : n \in 0..MaxDays}

\* the page counts the number input is given: its two ends
InputPages == {MinPages, MaxPages}

SearchTitles == { <<"d", "u", "n", "e">> }

DocFull ==
    [key |-> Some(<<"/works/OL1W">>), cover_i |-> Some(12),
     title |-> Some(<<"Dune">>),
     author_name |-> Some(<< <<"Frank Herbert">>, <<"Brian Herbert">> >>)]

DocBare ==
    [key |-> Some(<<"/works/OL2W">>), cover_i |-> None, title |-> None,
     author_name |-> None]

DocNoKey ==
    [key |-> None, cover_i |-> Some(0), title |-> Some(<<"Dune">>),
     author_name |-> None]

Responses ==
    [status : {200}, docs : {None, Some(<<>>), Some(<<DocFull>>),
                             Some(<<DocBare, DocFull>>), Some(<<DocNoKey>>)}]
    \cup [status : {404}, docs : {None}]

TypedTexts == { <<"E", "m", "m", "a">> }

\* a fresh installation: no log file, no session, 31 December 2025
Init ==
    /\ today = StartDay
    /\ file_exists = FALSE
    /\ file_rows = <<>>
    /\ has_log = FALSE
    /\ daily_log = <<>>
    /\ search = NoSearch
    /\ shown = NotRun
    /\ YEAR = StartDay[1]
    /\ heat = <<>>

\* the page is opened or rerun with no button pressed
PageLoad == Script(NoButton)

\* 'Log Reading' is pressed in daily_log_form
SubmitLog ==
    \E d \in InputDates, p \in InputPages :
        /\ shown.reached # "start"
        /\ DateAccepted(d, today) => Len(SessionLog) < MaxLog
        /\ Script([kind |-> "log", date |-> d, pages |-> p])

\* 'Search' is pressed in the add_book form and the request is answered
SearchBook ==
    \E t \in SearchTitles, r \in Responses :
        /\ shown.reached \in {"search", "end"}
        /\ Script([kind |-> "search", title |-> t, response |-> r])

\* the user types into the Title box
EditTitle ==
    \E t \in TypedTexts :
        /\ shown.reached = "end"
        /\ Script([kind |-> "title", text |-> t])

\* the browser opens the page anew: a session with an empty st.session_state
NewSession ==
    /\ shown.reached # "start"
    /\ has_log' = FALSE
    /\ daily_log' = <<>>
    /\ search' = NoSearch
    /\ shown' = NotRun
    /\ UNCHANGED <<today, file_exists, file_rows, YEAR, heat>>

\* midnight passes
Tick ==
    /\ Ordinal(today) - Ordinal(StartDay) < MaxDays - 1
    /\ today' = NextDay(today)
    /\ UNCHANGED <<file_exists, file_rows, has_log, daily_log, search, shown, YEAR, heat>>

Next == PageLoad \/ SubmitLog \/ SearchBook \/ EditTitle \/ NewSession \/ Tick

Spec == Init /\ [][Next]_vars

----------------------------------------------------------------------------
(* The statistics of generated logs: the session starts from a log drawn    *)
(* from a bounded family and the page is rendered.                          *)

\* the session of a page whose log file holds `log`, before its next run
SessionWith(log, now) ==
    /\ today = now
    /\ file_exists = (log # <<>>)
    /\ file_rows = to_csv(log)
    /\ has_log = TRUE
    /\ daily_log = log
    /\ search = NoSearch
    /\ shown = NotRun
    /\ YEAR = now[1]
    /\ heat = <<>>

Reverse(sq) == [i \in 1..Len(sq) |-> sq[Len(sq) + 1 - i]]

\* the mark of a day without an entry: no page count the number input can give
NotLogged == MaxPages + 1

\* the entries of the days 1..n after `first` that f gives pages, in date order
RECURSIVE EntriesOf(_, _, _)
EntriesOf(first, f, n) ==
    IF n = 0 THEN <<>>
    ELSE EntriesOf(first, f, n - 1) \o
         (IF f[n] # NotLogged THEN << [date |-> PlusDays(first, n), pages |-> f[n]] >>
          ELSE <<>>)

StreakFirst == <<2025, 12, 27>>

\* a day of a streak input: just under the goal, on it, far over it, or not logged
StreakDayKinds == {daily_goal - 1, daily_goal, MaxPages, NotLogged}

InitStreak ==
    \E f \in [1..MaxStreakDays -> StreakDayKinds], rev \in BOOLEAN :
        LET log == EntriesOf(StreakFirst, f, MaxStreakDays)
        IN  SessionWith(IF rev THEN Reverse(log) ELSE log,
                        PlusDays(StreakFirst, MaxStreakDays))

SpecStreak == InitStreak /\ [][PageLoad]_vars

StatFirst == <<2025, 12, 25>>

\* the pages a statistics input logs on its n-th day: rising, or falling
StatPages(n, rising) == IF rising THEN 2 * n ELSE MaxPages - 2 * n

InitStats ==
    \E S \in SUBSET (1..MaxStatDays), rising \in BOOLEAN, rev \in BOOLEAN,
       again \in BOOLEAN :
        LET f == [n \in 1..MaxStatDays |-> IF n \in S THEN StatPages(n, rising) ELSE NotLogged]
            log == EntriesOf(StatFirst, f, MaxStatDays)
            ordered == IF rev THEN Reverse(log) ELSE log
            \* the first entry of the log is logged once more at the end
            full == IF again /\ log # <<>> THEN ordered \o <<ordered[1]>> ELSE ordered
        IN  SessionWith(full, PlusDays(StatFirst, MaxStatDays))

SpecStats == InitStats /\ [][PageLoad]_vars

----------------------------------------------------------------------------
(* The heatmap view of generated series. *)

HeatYears == {2024, 2025, 2026, 2031}

\* the days of the year a heatmap input logs: its ends, a leap day's place, midyear
HeatYearDays(y) == {1, 2, 60, 200, DaysInYear(y)}

\* the same day number in another year, for an entry outside the target year
OtherYearEntries(y, n) ==
    { << [date |-> DateOfYearDay(o, Min2(n, DaysInYear(o))), pages |-> 7] >> :
        o \in HeatYears \ {y} }

InitHeat ==
    \E y \in HeatYears :
        \E n \in HeatYearDays(y), p \in {1, MaxPages} :
            \E other \in {<<>>} \cup OtherYearEntries(y, n) :
                /\ SessionWith(<< [date |-> DateOfYearDay(y, n), pages |-> p] >> \o other,
                               <<y, 12, 31>>)

\* create_heatmap_view(grouped_log) is called
HeatView ==
    /\ heat = <<>>
    /\ heat' = create_heatmap_view(get_daily_stats(daily_log).grouped_log, YEAR)
    /\ UNCHANGED <<today, file_exists, file_rows, has_log, daily_log, search, shown, YEAR>>

SpecHeat == InitHeat /\ [][HeatView]_vars

----------------------------------------------------------------------------
(* Properties. *)

IsPrefix(a, b) == Len(a) <= Len(b) /\ SubSeq(b, 1, Len(a)) = a

\* the sum of the pages of the rows of log at the positions I
RECURSIVE PagesAt(_, _)
PagesAt(log, I) ==
    IF I = {} THEN 0
    ELSE LET i == CHOOSE x \in I : TRUE
         IN  log[i].pages + PagesAt(log, I \ {i})

\* the pages logged in daily_log on the dates D
LoggedOn(D) == PagesAt(daily_log, {i \in 1..Len(daily_log) : daily_log[i].date \in D})

LogDates == {daily_log[i].date : i \in 1..Len(daily_log)}

\* two fractions are the same number
SameMean(a, b) == a.num * b.den = b.num * a.den

\* C1: the DailySeries of get_daily_stats has exactly one row per distinct date of
\* the log, no row for a date the log lacks, and each row's pages are the sum of
\* the pages of the log's entries of that date.
C1_OneRowPerDate ==
    ~shown.stats.none =>
        LET g == shown.stats.grouped_log
        IN  /\ \A i, j \in 1..Len(g) : i # j => g[i].date # g[j].date
            /\ {g[i].date : i \in 1..Len(g)} = LogDates
            /\ \A i \in 1..Len(g) : g[i].pages = LoggedOn({g[i].date})

\* a log with two entries of one date has been aggregated into one row
C1_Witness ==
    /\ ~shown.stats.none
    /\ Len(daily_log) > Len(shown.stats.grouped_log)
    /\ shown.stats.grouped_log[1].pages > MaxPages

\* the log's days as day numbers, and those of them that meet the goal
DayNumbers == {Ordinal(d) : d \in LogDates}
MetNumbers == {Ordinal(d) : d \in {e \in LogDates : LoggedOn({e}) >= daily_goal}}

\* the log is a run of A days meeting the goal, one day under it, a run of B days
RunsAroundLowDay(A, B) ==
    \E lo \in DayNumbers :
        /\ DayNumbers = lo..(lo + A + B)
        /\ MetNumbers = DayNumbers \ {lo + A}

\* the log is a run of A days meeting the goal, one day skipped, a run of B days
RunsAroundSkippedDay(A, B) ==
    \E lo \in DayNumbers :
        /\ DayNumbers = (lo..(lo + A + B)) \ {lo + A}
        /\ MetNumbers = DayNumbers

StreakIs(current, longest) ==
    /\ shown.streak # None
    /\ ~shown.streak[1].fault
    /\ shown.streak[1].current = current
    /\ shown.streak[1].longest = longest

\* C2: for runs of A and B days meeting the goal around a single gap (a day under
\* the goal, or a skipped date), the longest streak is max(A, B) and the current
\* streak is B.
C2_StreakResetsAtGap ==
    shown.reached # "start" =>
        \A A, B \in 1..MaxStreakDays :
            (RunsAroundLowDay(A, B) \/ RunsAroundSkippedDay(A, B))
                => StreakIs(B, Max2(A, B))

\* the day of the log's latest date is under the goal
LastDayUnderGoal ==
    \E d \in LogDates :
        /\ \A e \in LogDates : Ordinal(e) <= Ordinal(d)
        /\ LoggedOn({d}) < daily_goal

\* C3: when the final day of a non-empty series is under the goal, the current
\* streak is 0.
C3_CurrentZeroWhenLastDayUnder ==
    (shown.reached # "start" /\ LastDayUnderGoal) =>
        /\ shown.streak # None
        /\ ~shown.streak[1].fault
        /\ shown.streak[1].current = 0

\* the log is N consecutive days, each meeting the goal
ConsecutiveDaysMeetingGoal(N) ==
    \E lo \in DayNumbers :
        /\ DayNumbers = lo..(lo + N - 1)
        /\ MetNumbers = DayNumbers

\* C4: N >= 1 consecutive days, each meeting the goal, give current = longest = N.
C4_FullRun ==
    shown.reached # "start" =>
        \A N \in 1..MaxStreakDays :
            ConsecutiveDaysMeetingGoal(N) => StreakIs(N, N)

\* C4 for N >= 2 only: the part of C4 that the code meets.
C4_FullRunOfTwoOrMore ==
    shown.reached # "start" =>
        \A N \in 2..MaxStreakDays :
            ConsecutiveDaysMeetingGoal(N) => StreakIs(N, N)

\* C3 for series of two days or more, where the run does not stop in the
\* statistics block: the current streak shown is still not 0.
C3_TwoDaysOrMore ==
    (shown.reached = "end" /\ LastDayUnderGoal) => shown.streak[1].current = 0

\* the step is a run of the script with 'Log Reading' pressed for date d, pages p
LogSubmitted(d, p) ==
    /\ shown.reached # "start"
    /\ Script([kind |-> "log", date |-> d, pages |-> p])

\* C5: a submission dated after today is rejected with an error and changes neither
\* the session's log nor the log file; one dated today or earlier is accepted.
C5_FutureDateRejected ==
    [][\A d \in InputDates, p \in InputPages :
          LogSubmitted(d, p) =>
              IF Ordinal(d) > Ordinal(today)
              THEN /\ shown'.form = "error"
                   /\ daily_log' = daily_log
                   /\ file_exists' = file_exists
                   /\ file_rows' = file_rows
              ELSE /\ shown'.form = "success"
                   /\ daily_log' = Append(daily_log, [date |-> d, pages |-> p])]_vars

\* a submission was rejected in a session that had accepted one before
C5_Witness == shown.form = "error" /\ daily_log # <<>> /\ file_rows # <<>>

\* C6: an accepted submission adds exactly its entry at the end of the session's log
\* and of the log file; within a session the earlier log is a prefix of the later
\* one, and the file's earlier rows are a prefix of its later rows, at every step.
C6_AppendOnly ==
    [][/\ IsPrefix(file_rows, file_rows')
       /\ file_exists => file_exists'
       /\ (has_log /\ has_log') => IsPrefix(daily_log, daily_log')
       /\ \A d \in InputDates, p \in InputPages :
             (LogSubmitted(d, p) /\ Ordinal(d) <= Ordinal(today)) =>
                 /\ daily_log' = Append(daily_log, [date |-> d, pages |-> p])
                 /\ Len(file_rows') = Len(file_rows) + 1
                 /\ LoadLog(file_exists', file_rows')[Len(file_rows')]
                        = [date |-> d, pages |-> p]]_vars

\* a second entry was accepted after a first
C6_Witness == shown.form = "success" /\ Len(daily_log) >= 2 /\ Len(file_rows) >= 2

\* C8: after an accepted entry is appended and the file rewritten, the log a fresh
\* session loads from the file has the same DailySeries as the session's log.
C8_RoundTrip ==
    shown.form = "success" =>
        /\ file_exists
        /\ get_daily_stats(LoadLog(file_exists, file_rows)).grouped_log
               = get_daily_stats(daily_log).grouped_log

\* the rewritten file holds entries of two different years
C8_Witness ==
    /\ shown.form = "success"
    /\ Len(file_rows) >= 2
    /\ \E i, j \in 1..Len(daily_log) : daily_log[i].date[1] # daily_log[j].date[1]

\* the response is a non-200 status, or a 200 with an empty docs array
NotFoundResponse(r) == r.status # 200 \/ r.docs = Some(<<>>)

\* C9: a search answered by a non-200 status or by an empty docs array ends in the
\* warning, in no fault, and leaves the five stored search keys as they were.
C9_NotFoundKeepsResult ==
    [][\A t \in SearchTitles, r \in Responses :
          ( /\ shown.reached \in {"search", "end"}
            /\ NotFoundResponse(r)
            /\ Script([kind |-> "search", title |-> t, response |-> r]) )
          => /\ shown'.warning
             /\ shown'.fault = "none"
             /\ search' = search]_vars

\* a search was not found while an earlier search's result was stored
C9_Witness == shown.warning /\ search.url # None /\ search.cover_url # None

\* the latest k of the log's dates
LatestDates(k) ==
    {d \in LogDates : Cardinality({e \in LogDates : Ordinal(e) > Ordinal(d)}) < k}

\* C7: avg_pages_last_week is the sum of the pages of the min(7, n) latest-dated
\* days divided by min(7, n); with n <= 7 it equals avg_pages_per_day, the mean
\* over all n days.
C7_TrailingMean ==
    ~shown.stats.none =>
        LET n == Cardinality(LogDates)
            k == IF n < 7 THEN n ELSE 7
        IN  /\ SameMean(shown.stats.avg_pages_last_week,
                        [num |-> LoggedOn(LatestDates(k)), den |-> k])
            /\ SameMean(shown.stats.avg_pages_per_day,
                        [num |-> LoggedOn(LogDates), den |-> n])
            /\ n <= 7 => SameMean(shown.stats.avg_pages_last_week,
                                  shown.stats.avg_pages_per_day)

\* more than seven days, logged latest first, whose trailing mean differs from the
\* mean of all days
C7_Witness ==
    /\ ~shown.stats.none
    /\ Cardinality(LogDates) > 7
    /\ \A i \in 2..Len(daily_log) : Ordinal(daily_log[i].date) <= Ordinal(daily_log[1].date)
    /\ ~SameMean(shown.stats.avg_pages_last_week, shown.stats.avg_pages_per_day)

\* the entries of the log dated in the target year
LoggedInYear == {i \in 1..Len(daily_log) : daily_log[i].date[1] = YEAR}

\* C10: with exactly one logged day in the target year, the view's data has one
\* cell per calendar day of the year, each at its own (week, weekday) position;
\* one cell is non-zero, at the week and weekday of the logged date and with its
\* pages, and all the others are zero.
C10_HeatmapOneCell ==
    (heat # <<>> /\ Cardinality(LoggedInYear) = 1) =>
        LET e == daily_log[CHOOSE i \in LoggedInYear : TRUE]
            NonZero == {i \in 1..Len(heat) : heat[i].z # 0}
        IN  /\ Len(heat) = DaysInYear(YEAR)
            /\ \A i, j \in 1..Len(heat) :
                  i # j => <<heat[i].x, heat[i].y>> # <<heat[j].x, heat[j].y>>
            /\ Cardinality(NonZero) = 1
            /\ \A i \in NonZero :
                  /\ heat[i].x = IsoWeek(e.date)
                  /\ heat[i].y = Weekday(e.date)
                  /\ heat[i].z = e.pages

\* C10 without the demand that the cells' positions differ, for a series of the one
\* logged day alone: the part of C10 that the code meets.
C10_OneNonZeroCell ==
    (heat # <<>> /\ Len(daily_log) = 1) =>
        LET e == daily_log[1]
            NonZero == {i \in 1..Len(heat) : heat[i].z # 0}
        IN  /\ Len(heat) = DaysInYear(YEAR)
            /\ \A i \in 1..Len(heat) : heat[i].date = DateOfYearDay(YEAR, i)
            /\ Cardinality(NonZero) = 1
            /\ \A i \in NonZero :
                  /\ heat[i].date = e.date
                  /\ heat[i].x = IsoWeek(e.date)
                  /\ heat[i].y = Weekday(e.date)
                  /\ heat[i].z = e.pages

====
